---- MODULE Spec2Model ----
(***************************************************************************)
(* Model of src/src/main.rs: five banks' (token, score) records are        *)
(* encrypted into radix ciphertexts of NUM_BLOCKS blocks, aggregated with  *)
(* an all-pairs homomorphic equality test into a map keyed by the          *)
(* decrypted token, and selectively revealed to each bank behind a         *)
(* randomly drawn quorum.                                                   *)
(*                                                                         *)
(* A radix ciphertext is modelled by the values of its NUM_BLOCKS message  *)
(* blocks (least significant first), i.e. by what it decrypts to; the      *)
(* secrecy of the scheme is not modelled.  Rust's 0-based indices are      *)
(* 1-based here.                                                            *)
(***************************************************************************)
EXTENDS Integers, Sequences, FiniteSets, TLC

\* ---------------------------------------------------------------- constants
\* Number of banks.  The source sets 5; the model is scaled down.
N_BANKS == 3
\* Quorum threshold of the reveal phase.
THRESHOLD == 3
\* Records generated per bank by the source.
CLIENTS_PER_BANK == 30
\* Blocks per radix ciphertext.
NUM_BLOCKS == 4
\* PARAM_MESSAGE_2_CARRY_2: two message bits per block.
MESSAGE_MODULUS == 4

\* Largest per-bank record count explored by the exhaustive specification.
MaxClientsPerBank == 1

\* Tokens (u64 outputs of hash_id) the inputs are drawn from: 5 and 261
\* agree modulo 2^8, 5 and 21 agree on their two lowest blocks only.
Tokens == {5, 21, 261}
\* Scores are drawn by the source from 1..=100.
Scores == {10, 100}

Record == [id : Tokens, score : Scores]

\* ------------------------------------------------------- encryption scheme
\* client_key.encrypt of a u64 under NUM_BLOCKS blocks: the value is
\* decomposed into blocks of the message modulus and only the first
\* NUM_BLOCKS blocks are kept.
Encrypt(x) ==
    [b \in 1..NUM_BLOCKS |-> (x \div (MESSAGE_MODULUS ^ (b - 1))) % MESSAGE_MODULUS]

RECURSIVE DecryptFrom(_, _)
DecryptFrom(ct, b) ==
    IF b > NUM_BLOCKS THEN 0
    ELSE ct[b] * (MESSAGE_MODULUS ^ (b - 1)) + DecryptFrom(ct, b + 1)

\* client_key.decrypt: recomposition of the blocks into a u64.
Decrypt(ct) == DecryptFrom(ct, 1)

\* server_key.create_trivial_radix(v, NUM_BLOCKS)
CreateTrivialRadix(v) == Encrypt(v)

RECURSIVE CarryInto(_, _, _)
CarryInto(a, b, k) ==
    IF k = 1 THEN 0
    ELSE (a[k - 1] + b[k - 1] + CarryInto(a, b, k - 1)) \div MESSAGE_MODULUS

\* server_key.smart_add_assign: block-wise addition with carry propagation;
\* the carry out of the last block is dropped.
SmartAdd(a, b) ==
    [k \in 1..NUM_BLOCKS |-> (a[k] + b[k] + CarryInto(a, b, k)) % MESSAGE_MODULUS]

\* A plausible slip: the comparison stops after the two lowest blocks.
SmartEqLowBlocks(a, b) ==
    IF \A k \in 1..2 : a[k] = b[k] THEN 1 ELSE 0

\* server_key.smart_eq: a boolean block, 1 iff all blocks agree.
SmartEq(a, b) ==
    IF \A k \in 1..NUM_BLOCKS : a[k] = b[k] THEN 1 ELSE 0

\* client_key.decrypt_bool
DecryptBool(blk) == blk = 1

\* ------------------------------------------------------------------- state
VARIABLES
    banks,              \* banks[b]: sequence of (id, score) records of bank b
    encrypted_records,  \* sequence of [ct_id, ct_score]
    aggregates,         \* map: plain_id -> [sum, count] (ciphertexts)
    pc,                 \* "encrypt", "outer", "inner", "reveal", "done"
    i, j,               \* loop indices of the aggregation pass
    sum, count,         \* local accumulators of the current outer iteration
    bank_id, k,         \* loop indices of the reveal phase
    revealed,           \* per-bank counter of revealed averages
    decision,           \* the latest disclosure decision computed, or NoDecision
    contrib,            \* history: record index -> keys of entries it was added to
    addCount,           \* history: record index -> times its score was added
    matched             \* history: records a previous inner scan matched

vars == <<banks, encrypted_records, aggregates, pc, i, j, sum, count,
          bank_id, k, revealed, decision, contrib, addCount, matched>>

NoDecision == [kind |-> "none"]

\* Insertion or update of one key of a map.
MapPut(m, key, val) ==
    [x \in (DOMAIN m) \cup {key} |-> IF x = key THEN val ELSE m[x]]

EmptyMap == [x \in {} |-> 0]

RECURSIVE Flatten(_, _)
Flatten(bs, b) ==
    IF b > Len(bs) THEN <<>> ELSE bs[b] \o Flatten(bs, b + 1)

\* A plausible slip: the vector starts with one default record.
EncryptRecordsSentinel(bs) ==
    LET flat == <<[id |-> 0, score |-> 0]>> \o Flatten(bs, 1)
    IN  [n \in 1..Len(flat) |->
            [ct_id |-> Encrypt(flat[n].id), ct_score |-> Encrypt(flat[n].score)]]

\* Step 3: every record of every bank, in bank order, encrypted.
EncryptRecords(bs) ==
    LET flat == Flatten(bs, 1)
    IN  [n \in 1..Len(flat) |->
            [ct_id |-> Encrypt(flat[n].id), ct_score |-> Encrypt(flat[n].score)]]

\* The closure of or_insert_with: a fresh entry is (zero, one).
NewEntry == [sum |-> CreateTrivialRadix(0), count |-> CreateTrivialRadix(1)]

\* ------------------------------------------------------------------- inits
InitRest ==
    /\ encrypted_records = <<>>
    /\ aggregates = EmptyMap
    /\ pc = "encrypt"
    /\ i = 1
    /\ j = 1
    /\ sum = CreateTrivialRadix(0)
    /\ count = CreateTrivialRadix(0)
    /\ bank_id = 1
    /\ k = 1
    /\ revealed = 0
    /\ decision = NoDecision
    /\ contrib = <<>>
    /\ addCount = <<>>
    /\ matched = {}

\* Step 2: every bank holds the same number of records, each an arbitrary
\* (token, score) pair.
Init ==
    /\ \E n \in 0..MaxClientsPerBank :
          banks \in [1..N_BANKS -> [1..n -> Record]]
    /\ InitRest

\* The inputs in which every record carries the same token and score, with
\* up to CLIENTS_PER_BANK records per bank.
InitUniform ==
    /\ \E n \in 1..CLIENTS_PER_BANK : \E r \in Record :
          banks = [b \in 1..N_BANKS |-> [c \in 1..n |-> r]]
    /\ InitRest

\* ----------------------------------------------------------------- actions
\* Lines 42-50.
EncryptAll ==
    /\ pc = "encrypt"
    /\ encrypted_records' = EncryptRecords(banks)
    /\ contrib' = [n \in 1..Len(encrypted_records') |-> {}]
    /\ addCount' = [n \in 1..Len(encrypted_records') |-> 0]
    /\ pc' = "outer"
    /\ i' = 1
    /\ UNCHANGED <<banks, aggregates, j, sum, count, bank_id, k, revealed,
                   decision, matched>>

\* Lines 57-71: the head of one outer iteration.
BeginOuter ==
    /\ pc = "outer"
    /\ i <= Len(encrypted_records)
    /\ LET plain_id == Decrypt(encrypted_records[i].ct_id)
           entry == IF plain_id \in DOMAIN aggregates
                    THEN aggregates[plain_id] ELSE NewEntry
       IN  /\ aggregates' = MapPut(aggregates, plain_id, entry)
           /\ sum' = SmartAdd(entry.sum, encrypted_records[i].ct_score)
           /\ count' = SmartAdd(entry.count, CreateTrivialRadix(1))
           /\ contrib' = [contrib EXCEPT ![i] = @ \cup {plain_id}]
           /\ addCount' = [addCount EXCEPT ![i] = @ + 1]
    /\ j' = i + 1
    /\ pc' = "inner"
    /\ UNCHANGED <<banks, encrypted_records, i, bank_id, k, revealed,
                   decision, matched>>

\* Lines 74-83: one iteration of the inner scan.
InnerStep ==
    /\ pc = "inner"
    /\ j <= Len(encrypted_records)
    /\ LET ct_id_i == encrypted_records[i].ct_id
           ct_id_j == encrypted_records[j].ct_id
           eq_block == SmartEq(ct_id_i, ct_id_j)
       IN  IF DecryptBool(eq_block)
           THEN /\ sum' = SmartAdd(sum, encrypted_records[j].ct_score)
                /\ count' = SmartAdd(count, CreateTrivialRadix(1))
                /\ contrib' = [contrib EXCEPT ![j] = @ \cup {Decrypt(ct_id_i)}]
                /\ addCount' = [addCount EXCEPT ![j] = @ + 1]
                /\ matched' = matched \cup {j}
           ELSE UNCHANGED <<sum, count, contrib, addCount, matched>>
    /\ j' = j + 1
    /\ UNCHANGED <<banks, encrypted_records, aggregates, pc, i, bank_id, k,
                   revealed, decision>>

\* Lines 85-86: the accumulators are stored back into the entry.
EndOuter ==
    /\ pc = "inner"
    /\ j > Len(encrypted_records)
    /\ aggregates' = MapPut(aggregates, Decrypt(encrypted_records[i].ct_id),
                            [sum |-> sum, count |-> count])
    /\ i' = i + 1
    /\ pc' = "outer"
    /\ UNCHANGED <<banks, encrypted_records, j, sum, count, bank_id, k,
                   revealed, decision, contrib, addCount, matched>>

\* Lines 87-95: the pass is over, the reveal phase starts with bank 0.
AggregationDone ==
    /\ pc = "outer"
    /\ i > Len(encrypted_records)
    /\ pc' = "reveal"
    /\ bank_id' = 1
    /\ k' = 1
    /\ revealed' = 0
    /\ UNCHANGED <<banks, encrypted_records, aggregates, i, j, sum, count,
                   decision, contrib, addCount, matched>>

\* Line 104: (sum as f32 * 10.0 / count as f32) / 10.0; a zero count gives
\* an IEEE infinity or NaN, otherwise the quotient sum / count.
Average(s, c) ==
    IF c = 0 THEN (IF s = 0 THEN "NaN" ELSE "inf") ELSE <<s, c>>

\* Line 102: N_BANKS coin flips, quorum iff at least THRESHOLD come up true.
Quorum(flips) == Cardinality({b \in 1..N_BANKS : flips[b]}) >= THRESHOLD

\* Lines 96-108: one record of the current bank.
RevealStep ==
    /\ pc = "reveal"
    /\ bank_id <= N_BANKS
    /\ k <= Len(banks[bank_id])
    /\ LET known_id == banks[bank_id][k].id
       IN  IF known_id \in DOMAIN aggregates
           THEN \E flips \in [1..N_BANKS -> BOOLEAN] :
                   LET s == Decrypt(aggregates[known_id].sum)
                       c == Decrypt(aggregates[known_id].count)
                       quorum == Quorum(flips)
                   IN  /\ decision' = [kind |-> "decided", bank |-> bank_id,
                                       token |-> known_id, sum |-> s,
                                       count |-> c, revealed |-> quorum,
                                       avg |-> IF quorum THEN Average(s, c)
                                               ELSE "withheld"]
                       /\ revealed' = IF quorum THEN revealed + 1 ELSE revealed
           ELSE UNCHANGED <<decision, revealed>>
    /\ k' = k + 1
    /\ UNCHANGED <<banks, encrypted_records, aggregates, pc, i, j, sum, count,
                   bank_id, contrib, addCount, matched>>

\* Lines 94-95, 110-113: the bank's tally is printed, the next bank starts.
BankDone ==
    /\ pc = "reveal"
    /\ bank_id <= N_BANKS
    /\ k > Len(banks[bank_id])
    /\ bank_id' = bank_id + 1
    /\ k' = 1
    /\ revealed' = 0
    /\ pc' = IF bank_id = N_BANKS THEN "done" ELSE "reveal"
    /\ UNCHANGED <<banks, encrypted_records, aggregates, i, j, sum, count,
                   decision, contrib, addCount, matched>>

Next ==
    \/ EncryptAll
    \/ BeginOuter
    \/ InnerStep
    \/ EndOuter
    \/ AggregationDone
    \/ RevealStep
    \/ BankDone

Spec == Init /\ [][Next]_vars

SpecUniform == InitUniform /\ [][Next]_vars

\* ------------------------------------------- the pass as a pure function
RECURSIVE InnerScan(_, _, _, _)
\* Lines 74-83 from index jj on, for the outer record ii.
InnerScan(recs, ii, jj, acc) ==
    IF jj > Len(recs) THEN acc
    ELSE InnerScan(recs, ii, jj + 1,
            IF DecryptBool(SmartEq(recs[ii].ct_id, recs[jj].ct_id))
            THEN [sum |-> SmartAdd(acc.sum, recs[jj].ct_score),
                  count |-> SmartAdd(acc.count, CreateTrivialRadix(1))]
            ELSE acc)

RECURSIVE OuterPass(_, _, _)
\* Lines 57-87 from index ii on.
OuterPass(recs, ii, aggs) ==
    IF ii > Len(recs) THEN aggs
    ELSE LET plain_id == Decrypt(recs[ii].ct_id)
             entry == IF plain_id \in DOMAIN aggs THEN aggs[plain_id] ELSE NewEntry
             start == [sum |-> SmartAdd(entry.sum, recs[ii].ct_score),
                       count |-> SmartAdd(entry.count, CreateTrivialRadix(1))]
         IN  OuterPass(recs, ii + 1,
                       MapPut(aggs, plain_id, InnerScan(recs, ii, ii + 1, start)))

\* The whole aggregation pass over a record sequence.
AggregatePass(recs) == OuterPass(recs, 1, EmptyMap)

\* ------------------------------------------------------ auxiliary notions
\* The plaintext records in the order in which they are encrypted.
PlainRecords == Flatten(banks, 1)

RecordIndices == 1..Len(encrypted_records)

PassFinished == pc \in {"reveal", "done"}

\* What the key holder reads out of a map of ciphertext pairs.
Opened(aggs) ==
    [key \in DOMAIN aggs |->
        [sum |-> Decrypt(aggs[key].sum), count |-> Decrypt(aggs[key].count)]]

RECURSIVE ScoreTotal(_)
\* Arithmetic (unbounded) sum of the plaintext scores of a set of records.
ScoreTotal(S) ==
    IF S = {} THEN 0
    ELSE LET n == CHOOSE x \in S : TRUE
         IN  PlainRecords[n].score + ScoreTotal(S \ {n})

\* The records whose plaintext token equals a key.
HoldersOfToken(key) == {n \in 1..Len(PlainRecords) : PlainRecords[n].id = key}

\* The records whose encrypted token decrypts to a key.
ClassOfKey(key) ==
    {n \in RecordIndices : Decrypt(encrypted_records[n].ct_id) = key}

\* The equivalence classes of records under the encrypted equality test.
EqClasses ==
    {{b \in RecordIndices :
        DecryptBool(SmartEq(encrypted_records[a].ct_id, encrypted_records[b].ct_id))} :
     a \in RecordIndices}

\* The number of banks holding a token.
BanksHolding(t) ==
    Cardinality({b \in 1..N_BANKS : \E c \in 1..Len(banks[b]) : banks[b][c].id = t})

AllBanksEmpty == \A b \in 1..N_BANKS : banks[b] = <<>>

\* The step-wise pass and the pure function compute the same map.
PassAgrees == PassFinished => aggregates = AggregatePass(encrypted_records)

\* ------------------------------------------------------------------ claims
\* C1: when the aggregation pass has finished, the decrypted count of every
\* entry equals the number of input records whose token equals the entry's
\* key (a token held by one record has count 1).
C1_CountEqualsRecords ==
    PassFinished =>
        \A key \in DOMAIN aggregates :
            Decrypt(aggregates[key].count) = Cardinality(HoldersOfToken(key))

\* C2: when the aggregation pass has finished, the decrypted sum of every
\* entry equals the arithmetic sum of the plaintext scores of the records
\* whose token equals the entry's key.
C2_SumEqualsScores ==
    PassFinished =>
        \A key \in DOMAIN aggregates :
            Decrypt(aggregates[key].sum) = ScoreTotal(HoldersOfToken(key))

\* C3: two records contribute to the same entry iff the encrypted equality
\* test on their tokens is true, the finished map has exactly one entry per
\* equivalence class of the test, and no step removes an entry.
C3_PartitionByEquality ==
    /\ [](PassFinished =>
            /\ \A a, b \in RecordIndices :
                  (contrib[a] \cap contrib[b] # {}) <=>
                  DecryptBool(SmartEq(encrypted_records[a].ct_id,
                                      encrypted_records[b].ct_id))
            /\ Cardinality(DOMAIN aggregates) = Cardinality(EqClasses))
    /\ [][DOMAIN aggregates \subseteq DOMAIN aggregates']_vars

\* C3 witness: a finished pass over tokens 5, 261 (equal under the test)
\* and 21, giving two entries.
C3_Witness ==
    /\ pc = "done"
    /\ Cardinality(DOMAIN aggregates) = 2
    /\ \E a, b \in RecordIndices :
          /\ PlainRecords[a].id # PlainRecords[b].id
          /\ contrib[a] \cap contrib[b] # {}

\* C4: every ordering of the input records gives the same finished map of
\* token -> (sum, count).
C4_OrderIndependent ==
    pc = "done" =>
        \A p \in Permutations(RecordIndices) :
            Opened(AggregatePass([n \in RecordIndices |-> encrypted_records[p[n]]]))
                = Opened(aggregates)

\* C5: an average for token T is revealed to a bank only if at least
\* THRESHOLD banks hold T.
C5_RevealOnlyWithQuorum ==
    (decision.kind = "decided" /\ decision.revealed) =>
        BanksHolding(decision.token) >= THRESHOLD

\* C6: the true sum and true count of every entry stay below 2^8 (the
\* ciphertext width), or else the run surfaces OverflowRisk.
C6_NoSilentWrap ==
    \A key \in DOMAIN aggregates :
        \/ /\ ScoreTotal(ClassOfKey(key)) < MESSAGE_MODULUS ^ NUM_BLOCKS
           /\ Cardinality(ClassOfKey(key)) < MESSAGE_MODULUS ^ NUM_BLOCKS
        \/ pc = "OverflowRisk"

\* C7: whenever an entry exists its decrypted count is at least 1, and a
\* count of 0 read by the reveal phase is signalled as DivisionUndefined.
C7_CountAtLeastOne ==
    /\ \A key \in DOMAIN aggregates : Decrypt(aggregates[key].count) >= 1
    /\ (decision.kind = "decided" /\ decision.count = 0) => pc = "DivisionUndefined"

\* C8: when every bank's record set is empty, the map stays empty and the
\* reveal phase computes no disclosure decision.
C8_EmptyInputNoDecision ==
    AllBanksEmpty =>
        /\ aggregates = EmptyMap
        /\ decision = NoDecision
        /\ revealed = 0

\* C8 witness: the run over empty banks has ended.
C8_Witness == pc = "done" /\ AllBanksEmpty

\* C9: a record matched by an earlier record's scan is consumed: it is never
\* the outer-loop record afterwards, and over the whole pass each record's
\* score is added exactly once.
C9_MatchedIsConsumed ==
    /\ pc = "inner" => i \notin matched
    /\ PassFinished => \A r \in RecordIndices : addCount[r] = 1

\* C10: after the pass the map has an entry keyed by the full token of
\* every record of every bank.
C10_KeyIsFullToken ==
    PassFinished =>
        \A b \in 1..N_BANKS : \A c \in 1..Len(banks[b]) :
            banks[b][c].id \in DOMAIN aggregates

====
